---------------------------- MODULE Spec2Model ----------------------------
(***************************************************************************)
(* A model of rtd, a todo list kept in one SQLite table.                   *)
(*                                                                         *)
(*   src/src/lib.rs   the storage accessor: get_connection, Todo::new,     *)
(*                    Todo::save, Todo::from_id, PartialEq for Todo,       *)
(*                    initialize_tables, get_all_todos                     *)
(*   src/src/main.rs  the command dispatcher: get_client, print_todo,      *)
(*                    print_all_todos, print_todo_by_id, create_new_todo   *)
(*                                                                         *)
(* Spec     is the storage accessor driven on one open connection.         *)
(* SpecCli  is a sequence of invocations of the command line program.      *)
(*                                                                         *)
(* A text is a sequence of one-character strings, so that trimming and     *)
(* comparing texts is computed and not assumed.                            *)
(***************************************************************************)
EXTENDS Integers, Sequences, FiniteSets

VARIABLES
    conn,       \* the database behind the open Connection (Spec)
    last,       \* the last call made on the connection, with what it returned
    returned,   \* history: the records Todo::save has returned, in order
    disk,       \* the database files of the file system, by path (SpecCli)
    cli         \* the last invocation of the program, with what it printed

vars == <<conn, last, returned, disk, cli>>

(***************************************************************************)
(* Bounds of the model.                                                    *)
(***************************************************************************)
\* The largest value the autoincrement counter of a table reaches.
MaxId == 3
\* The number of invocations of the program that SpecCli follows.
MaxRuns == 3

(***************************************************************************)
(* Texts.                                                                  *)
(***************************************************************************)
\* The titles the callers of the library pass: the empty text and three
\* others.
Titles == { <<>>, <<"a">>, <<"b">>, <<"a", "b">> }

\* The descriptions they pass.
Descriptions == { <<>>, <<"d">> }

\* The ids callers ask for: none, negative, assigned or not assigned yet.
Ids == -1 .. (MaxId + 1)

\* The ids a record holds before it is saved: 0 from Todo::new, -1 from
\* create_new_todo.
UnsavedIds == { 0, -1 }

\* char::is_whitespace, on the characters of the model.
Whitespace == { " ", "\t", "\n" }

RECURSIVE trim_start(_)
trim_start(s) ==
    IF s # <<>> /\ Head(s) \in Whitespace THEN trim_start(Tail(s)) ELSE s

RECURSIVE trim_end(_)
trim_end(s) ==
    IF s # <<>> /\ s[Len(s)] \in Whitespace
    THEN trim_end(SubSeq(s, 1, Len(s) - 1))
    ELSE s

\* str::trim: the text without its leading and trailing whitespace.
trim(s) == trim_end(trim_start(s))

(***************************************************************************)
(* The database: whether the table todos exists, its rows, and the         *)
(* largest rowid the table has handed out (the row of sqlite_sequence      *)
(* that AUTOINCREMENT keeps).                                              *)
(***************************************************************************)
EmptyDb == [tbl |-> FALSE, rows |-> {}, seq |-> 0]

\* What a call returns in place of a record when it fails.
NoTodo == [none |-> TRUE]

RowIds(db) == { r.id : r \in db.rows }
RowTitles(db) == { r.title : r \in db.rows }

\* get_connection: the path ":memory:" opens a database in memory, any
\* other path the file of that name.
get_connection(path) ==
    IF path = ":memory:"
    THEN [store |-> "memory", path |-> path]
    ELSE [store |-> "file", path |-> path]

\* Todo::new: the id is 0 until the record is saved.
new(title, description, complete) ==
    [id |-> 0, title |-> title, description |-> description,
     complete |-> complete]

\* The insert on a table whose title column is not UNIQUE.
insert_no_unique(db, title, description, complete, burn) ==
    IF ~db.tbl THEN
        [db |-> db, res |-> "NoSuchTable", id |-> 0]
    ELSE
        [db |-> [db EXCEPT
                    !.rows = @ \cup { [id |-> db.seq + 1, title |-> title,
                                       description |-> description,
                                       complete |-> complete] },
                    !.seq = @ + 1],
         res |-> "Ok", id |-> db.seq + 1]

\* INSERT INTO todos(title, description, complete) on a table whose id
\* is INTEGER PRIMARY KEY AUTOINCREMENT and whose title is NOT NULL UNIQUE.
\* A String is never NULL, so NOT NULL rejects nothing.  A statement that
\* fails on the UNIQUE constraint changes no row.  SQLite's documentation
\* of AUTOINCREMENT allows that the rowid chosen for it "might not be
\* reused" (SQLite 3.40 does reuse it); `burn` covers both.
insert(db, title, description, complete, burn) ==
    IF ~db.tbl THEN
        [db |-> db, res |-> "NoSuchTable", id |-> 0]
    ELSE IF title \in RowTitles(db) THEN
        [db |-> [db EXCEPT !.seq = IF burn THEN @ + 1 ELSE @],
         res |-> "UniqueConstraintViolation", id |-> 0]
    ELSE
        [db |-> [db EXCEPT
                    !.rows = @ \cup { [id |-> db.seq + 1, title |-> title,
                                       description |-> description,
                                       complete |-> complete] },
                    !.seq = @ + 1],
         res |-> "Ok", id |-> db.seq + 1]

\* Todo::save with the title and the description bound to each other's
\* parameter.
save_swapped(self, db, burn) ==
    LET ins == insert(db, self.description, self.title, self.complete, burn)
    IN  [db |-> ins.db,
         res |-> ins.res,
         ret |-> IF ins.res = "Ok"
                 THEN [id |-> ins.id, title |-> self.title,
                       description |-> self.description,
                       complete |-> self.complete]
                 ELSE NoTodo]

\* Todo::save that returns the record as it was given, id included.
save_keeps_id(self, db, burn) ==
    LET ins == insert(db, self.title, self.description, self.complete, burn)
    IN  [db |-> ins.db,
         res |-> ins.res,
         ret |-> IF ins.res = "Ok" THEN self ELSE NoTodo]

\* Todo::save through INSERT OR REPLACE: a row of the same title is
\* deleted for the new one.
save_or_replace(self, db, burn) ==
    LET kept == [db EXCEPT !.rows = { r \in @ : r.title # self.title }]
        ins == insert(kept, self.title, self.description, self.complete, burn)
    IN  [db |-> ins.db,
         res |-> ins.res,
         ret |-> IF ins.res = "Ok"
                 THEN [id |-> ins.id, title |-> self.title,
                       description |-> self.description,
                       complete |-> self.complete]
                 ELSE NoTodo]

\* Todo::save: the record, with the id the insert returned.
save(self, db, burn) ==
    LET ins == insert(db, self.title, self.description, self.complete, burn)
    IN  [db |-> ins.db,
         res |-> ins.res,
         ret |-> IF ins.res = "Ok"
                 THEN [id |-> ins.id, title |-> self.title,
                       description |-> self.description,
                       complete |-> self.complete]
                 ELSE NoTodo]

\* Todo::from_id with WHERE id >= ?: query_row keeps the first row.
from_id_at_least(id, db) ==
    IF ~db.tbl THEN [res |-> "NoSuchTable", ret |-> NoTodo]
    ELSE IF \A r \in db.rows : r.id < id THEN
        [res |-> "QueryReturnedNoRows", ret |-> NoTodo]
    ELSE [res |-> "Ok",
          ret |-> CHOOSE r \in db.rows :
                      /\ r.id >= id
                      /\ \A q \in db.rows : q.id >= id => r.id <= q.id]

\* Todo::from_id: SELECT ... FROM todos WHERE id = ?, through query_row,
\* which fails with QueryReturnedNoRows when no row matches.
from_id(id, db) ==
    IF ~db.tbl THEN [res |-> "NoSuchTable", ret |-> NoTodo]
    ELSE IF id \notin RowIds(db) THEN
        [res |-> "QueryReturnedNoRows", ret |-> NoTodo]
    ELSE [res |-> "Ok", ret |-> CHOOSE r \in db.rows : r.id = id]

\* PartialEq for Todo: id, title and description; not the completion flag.
eq(self, other) ==
    /\ self.id = other.id
    /\ self.title = other.title
    /\ self.description = other.description

\* initialize_tables that drops the table before it creates it.
initialize_tables_recreate(db) ==
    [db |-> [tbl |-> TRUE, rows |-> {}, seq |-> 0], res |-> "Ok"]

\* initialize_tables: CREATE TABLE IF NOT EXISTS todos(...).
initialize_tables(db) ==
    [db |-> IF db.tbl THEN db ELSE [db EXCEPT !.tbl = TRUE],
     res |-> "Ok"]

\* The rows of a table as a scan meets them: by ascending rowid.
RECURSIVE ByRowid(_)
ByRowid(rows) ==
    IF rows = {} THEN <<>>
    ELSE LET first == CHOOSE r \in rows : \A q \in rows : r.id <= q.id
         IN  <<first>> \o ByRowid(rows \ {first})

\* get_all_todos with WHERE complete = false.
get_all_todos_open(db) ==
    IF ~db.tbl THEN [res |-> "NoSuchTable", ret |-> <<>>]
    ELSE [res |-> "Ok", ret |-> ByRowid({ r \in db.rows : ~r.complete })]

\* get_all_todos: SELECT ... FROM todos, with no ORDER BY and no index that
\* holds every column: SQLite scans the table, which yields every row once,
\* by ascending rowid.
get_all_todos(db) ==
    IF ~db.tbl THEN [res |-> "NoSuchTable", ret |-> <<>>]
    ELSE [res |-> "Ok", ret |-> ByRowid(db.rows)]

(***************************************************************************)
(* The command dispatcher.  One invocation of the program opens a client,  *)
(* runs one command and exits; what it wrote to a database file stays on   *)
(* the disk, what it wrote to a database in memory is gone.                *)
(***************************************************************************)
NoFile == [nofile |-> TRUE]

\* proj_dirs.data_dir().join("db.sqlite3")
DataDbPath == "data_dir/db.sqlite3"

\* The location get_client passes when the data directory is not resolved.
FallbackLocation == ":memory"

\* The paths that name a file when a connection is opened on them.
FilePaths == { DataDbPath, FallbackLocation }

\* Option<String>: None, and Some(t).
None == <<>>
Some(t) == <<t>>

\* The titles given on the command line, and the lines read from standard
\* input for the title and for the description.
ArgTitles == { <<" ">>, <<" ", "a">> }
TitleLines == { <<"\n">>, <<"a", "\n">>, <<"b", " ", "\n">> }
DescriptionLines == { <<"\n">>, <<"d", "\n">> }

\* What the environment does to an invocation: nothing, or it fails the
\* creation of the data directory, the opening of the database file, or a
\* read of standard input.
IoOutcomes == { "ok", "mkdir_fails", "open_fails", "stdin_fails" }

\* TodoClient::build(location): a connection to the database at location,
\* with the schema initialized.  A file that does not exist is created.
TodoClient_build(location, io, files) ==
    LET c == get_connection(location)
        found == IF c.store = "file" /\ files[c.path] # NoFile
                 THEN files[c.path] ELSE EmptyDb
        init == initialize_tables(found)
    IN  IF c.store = "file" /\ io = "open_fails"
        THEN [res |-> "Err", store |-> c.store, path |-> c.path, db |-> found]
        ELSE [res |-> init.res, store |-> c.store, path |-> c.path,
              db |-> init.db]

\* TodoClient::add(&todo): the insert of the record.
TodoClient_add(client, todo, burn) ==
    LET ins == insert(client.db, todo.title, todo.description, todo.complete,
                      burn)
    IN  [client |-> [client EXCEPT !.db = ins.db], res |-> ins.res]

\* TodoClient::get_todo_by_id(id): the row of that id.
TodoClient_get_todo_by_id(client, id) == from_id(id, client.db)

\* TodoClient::get_all_todos(): every row.
TodoClient_get_all_todos(client) == get_all_todos(client.db)

\* The disk when the process that held the client has ended.
Persist(files, client) ==
    IF client.store = "file"
    THEN [files EXCEPT ![client.path] = client.db]
    ELSE files

\* What get_client holds when it ends before it builds a client.
NoClient == [res |-> "Err", store |-> "none", path |-> "", db |-> EmptyDb]

WarningLine == <<"WARNING: could not load the todo DB, loading in-memory DB">>

\* get_client: the database file below the data directory, or, when
\* ProjectDirs::from returns None, a warning and the fallback location.
\* res is "Panic" when create_dir_all fails and "Err" when build fails.
get_client(dirs, io, files) ==
    IF dirs = "Some" THEN
        IF io = "mkdir_fails"
        THEN [res |-> "Panic", out |-> <<>>, client |-> NoClient]
        ELSE LET c == TodoClient_build(DataDbPath, io, files)
             IN  [res |-> c.res, out |-> <<>>, client |-> c]
    ELSE
        LET c == TodoClient_build(FallbackLocation, io, files)
        IN  [res |-> c.res, out |-> <<WarningLine>>, client |-> c]

\* print_todo: one record, as a line of output.
print_todo(todo) ==
    <<"todo", todo.title, todo.id, todo.complete, todo.description>>

NotFoundLine(id) == <<"Could not find any todo with id: ", id>>

\* What a handler leaves: the disk, how the process ended, what it printed,
\* and the client it held.
Outcome(files, exit, out, c) ==
    [disk |-> files, exit |-> exit, out |-> out,
     store |-> c.client.store, location |-> c.client.path]

\* print_all_todos
print_all_todos(dirs, io, files) ==
    LET c == get_client(dirs, io, files)
        all == TodoClient_get_all_todos(c.client)
    IN  IF c.res # "Ok" THEN Outcome(files, "panic", c.out, c)
        ELSE IF all.res # "Ok"
        THEN Outcome(Persist(files, c.client), "panic", c.out, c)
        ELSE Outcome(Persist(files, c.client), "ok",
                     c.out \o [i \in DOMAIN all.ret |-> print_todo(all.ret[i])],
                     c)

\* print_todo_by_id with expect in place of the match: a failed lookup ends
\* the process.
print_todo_by_id_expect(id, dirs, io, files) ==
    LET c == get_client(dirs, io, files)
        look == TodoClient_get_todo_by_id(c.client, id)
    IN  IF c.res # "Ok" THEN Outcome(files, "panic", c.out, c)
        ELSE IF look.res # "Ok"
        THEN Outcome(Persist(files, c.client), "panic", c.out, c)
        ELSE Outcome(Persist(files, c.client), "ok",
                     c.out \o <<print_todo(look.ret)>>, c)

\* print_todo_by_id: any failed lookup prints the not-found line.
print_todo_by_id(id, dirs, io, files) ==
    LET c == get_client(dirs, io, files)
        look == TodoClient_get_todo_by_id(c.client, id)
    IN  IF c.res # "Ok" THEN Outcome(files, "panic", c.out, c)
        ELSE IF look.res # "Ok"
        THEN Outcome(Persist(files, c.client), "ok",
                     c.out \o <<NotFoundLine(id)>>, c)
        ELSE Outcome(Persist(files, c.client), "ok",
                     c.out \o <<print_todo(look.ret)>>, c)

\* create_new_todo: the title of the command line or a line of standard
\* input, the description a line of standard input, both trimmed.
create_new_todo(title, titleLine, descriptionLine, dirs, io, files, burn) ==
    LET c == get_client(dirs, io, files)
        title_str == IF title # None THEN title[1] ELSE titleLine
        prompts == (IF title # None THEN <<>> ELSE << <<"Todo title: ">> >>)
                   \o << <<"Todo Description: ">> >>
        todo == [id |-> -1, title |-> trim(title_str),
                 description |-> trim(descriptionLine), complete |-> FALSE]
        added == TodoClient_add(c.client, todo, burn)
    IN  IF c.res # "Ok" THEN Outcome(files, "panic", c.out, c)
        ELSE IF io = "stdin_fails"
        THEN Outcome(Persist(files, c.client), "panic", c.out, c)
        ELSE IF added.res # "Ok"
        THEN Outcome(Persist(files, added.client), "panic",
                     c.out \o prompts, c)
        ELSE Outcome(Persist(files, added.client), "ok",
                     c.out \o prompts
                         \o << <<"Created new todo - ", todo.title>> >>, c)

(***************************************************************************)
(* Spec: calls on one connection, opened as tests::setup opens it          *)
(* (get_connection(":memory:")), a database with no table yet.             *)
(***************************************************************************)
\* `last` keeps the call, its argument, the database it found (pre), and
\* what it returned.
NoCall == [op |-> "none", arg |-> NoTodo, pre |-> EmptyDb, res |-> "Ok",
           ret |-> NoTodo]

\* `cli` keeps the invocation: its number, the command and its argument,
\* what the environment did, the disk it found (pre), the store and the
\* location of its client, how it ended and what it printed.
NoRun == [n |-> 0, cmd |-> "none", arg |-> 0, dirs |-> "Some", io |-> "ok",
          pre |-> [p \in FilePaths |-> NoFile], store |-> "file",
          location |-> DataDbPath, exit |-> "ok", out |-> <<>>]

Init ==
    /\ conn = EmptyDb
    /\ last = NoCall
    /\ returned = <<>>
    /\ disk = [p \in FilePaths |-> NoFile]
    /\ cli = NoRun

InitializeTables ==
    LET r == initialize_tables(conn)
    IN  /\ conn' = r.db
        /\ last' = [op |-> "initialize_tables", arg |-> NoTodo, pre |-> conn,
                    res |-> r.res, ret |-> NoTodo]
        /\ UNCHANGED <<returned, disk, cli>>

Save ==
    \E title \in Titles, description \in Descriptions, complete \in BOOLEAN,
       id \in UnsavedIds, burn \in BOOLEAN :
        LET self == [new(title, description, complete) EXCEPT !.id = id]
            r == save(self, conn, burn)
        IN  /\ r.db.seq <= MaxId
            /\ conn' = r.db
            /\ last' = [op |-> "save", arg |-> self.title, pre |-> conn,
                        res |-> r.res, ret |-> r.ret]
            /\ returned' = IF r.res = "Ok" THEN Append(returned, r.ret)
                           ELSE returned
            /\ UNCHANGED <<disk, cli>>

FromId ==
    \E id \in Ids :
        LET r == from_id(id, conn)
        IN  /\ last' = [op |-> "from_id", arg |-> id, pre |-> conn,
                        res |-> r.res, ret |-> r.ret]
            /\ UNCHANGED <<conn, returned, disk, cli>>

GetAllTodos ==
    LET r == get_all_todos(conn)
    IN  /\ last' = [op |-> "get_all_todos", arg |-> NoTodo, pre |-> conn,
                    res |-> r.res, ret |-> r.ret]
        /\ UNCHANGED <<conn, returned, disk, cli>>

Next == InitializeTables \/ Save \/ FromId \/ GetAllTodos

Spec == Init /\ [][Next]_vars

(***************************************************************************)
(* SpecCli: main, once per invocation.                                     *)
(***************************************************************************)
Ran(cmd, arg, dirs, io, r) ==
    /\ disk' = r.disk
    /\ cli' = [n |-> cli.n + 1, cmd |-> cmd, arg |-> arg, dirs |-> dirs,
               io |-> io, pre |-> disk, store |-> r.store,
               location |-> r.location, exit |-> r.exit, out |-> r.out]
    /\ UNCHANGED <<conn, last, returned>>

\* rtd new [title]
CmdNew ==
    /\ cli.n < MaxRuns
    /\ \E given \in { <<Some(t), <<>>>> : t \in ArgTitles }
                      \cup { <<None, l>> : l \in TitleLines },
          descriptionLine \in DescriptionLines,
          dirs \in {"Some", "None"}, io \in IoOutcomes, burn \in BOOLEAN :
            Ran("new", IF given[1] # None THEN given[1][1] ELSE given[2],
                dirs, io,
                create_new_todo(given[1], given[2], descriptionLine, dirs, io,
                                disk, burn))

\* rtd get id <id>
CmdGetId ==
    /\ cli.n < MaxRuns
    /\ \E id \in -1 .. (MaxRuns + 1), dirs \in {"Some", "None"},
          io \in IoOutcomes \ {"stdin_fails"} :
            Ran("get_id", id, dirs, io, print_todo_by_id(id, dirs, io, disk))

\* rtd get all, and rtd get
CmdGetAll ==
    /\ cli.n < MaxRuns
    /\ \E dirs \in {"Some", "None"}, io \in IoOutcomes \ {"stdin_fails"} :
            Ran("get_all", 0, dirs, io, print_all_todos(dirs, io, disk))

NextCli == CmdNew \/ CmdGetId \/ CmdGetAll

SpecCli == Init /\ [][NextCli]_vars


(***************************************************************************)
(* The storage accessor (Spec).                                            *)
(***************************************************************************)
ReturnedIds == { returned[i].id : i \in DOMAIN returned }

\* C1: a save of a record whose title is not empty and not in the table
\* succeeds and returns a record r; from_id(r.id) on the table the save left
\* succeeds and returns a record equal to r (same id, title, description);
\* and so does every later from_id of an id a save returned.
C1_SaveThenFromId ==
    /\ ( /\ last.op = "save"
         /\ last.pre.tbl
         /\ last.arg # <<>>
         /\ last.arg \notin RowTitles(last.pre) )
       => /\ last.res = "Ok"
          /\ LET got == from_id(last.ret.id, conn)
             IN  /\ got.res = "Ok"
                 /\ eq(got.ret, last.ret)
                 /\ got.ret.id = last.ret.id
                 /\ got.ret.title = last.ret.title
                 /\ got.ret.description = last.ret.description
    /\ (last.op = "from_id" /\ last.arg \in ReturnedIds)
       => /\ last.res = "Ok"
          /\ \E i \in DOMAIN returned :
                /\ returned[i].id = last.arg
                /\ eq(last.ret, returned[i])

\* from_id has just returned the record of the second of two saves.
C1_Witness ==
    /\ last.op = "from_id"
    /\ last.res = "Ok"
    /\ Len(returned) = 2
    /\ last.arg = returned[2].id
    /\ returned[2].title # <<>>
    /\ returned[2].description # <<>>

\* C2: a save whose title is the title of a row of the table fails on the
\* uniqueness constraint and leaves the rows as they were, one of them with
\* that title.
C2_DuplicateTitleRejected ==
    ( /\ last.op = "save"
      /\ last.pre.tbl
      /\ last.arg \in RowTitles(last.pre) )
    => /\ last.res = "UniqueConstraintViolation"
       /\ last.ret = NoTodo
       /\ conn.rows = last.pre.rows
       /\ Cardinality({ r \in conn.rows : r.title = last.arg }) = 1

\* A save has just failed on a title that one of two rows holds.
C2_Witness ==
    /\ last.op = "save"
    /\ last.res = "UniqueConstraintViolation"
    /\ Cardinality(conn.rows) = 2

\* C3: on an initialized table get_all_todos succeeds and returns as many
\* records as saves have succeeded, none when there was none.
C3_GetAllCountsInserts ==
    (last.op = "get_all_todos" /\ last.pre.tbl)
    => /\ last.res = "Ok"
       /\ Len(last.ret) = Len(returned)
       /\ { last.ret[i] : i \in DOMAIN last.ret } = conn.rows

\* get_all_todos has just returned three records, one of them complete.
C3_Witness ==
    /\ last.op = "get_all_todos"
    /\ Len(last.ret) = 3
    /\ \E i \in DOMAIN last.ret : last.ret[i].complete

\* C4: on an initialized table from_id of an id that no save has returned
\* fails with QueryReturnedNoRows and returns no record.
C4_UnassignedIdNotFound ==
    ( /\ last.op = "from_id"
      /\ last.pre.tbl
      /\ last.arg \notin ReturnedIds )
    => /\ last.res = "QueryReturnedNoRows"
       /\ last.ret = NoTodo

\* from_id has just failed on the id above the two that were assigned.
C4_Witness ==
    /\ last.op = "from_id"
    /\ last.res = "QueryReturnedNoRows"
    /\ ReturnedIds = {1, 2}
    /\ last.arg = 3

\* C5: every persisted record has a non-empty title, and no two persisted
\* records of a table share a title.
C5_TitlesNonEmptyUnique ==
    \A db \in {conn} \cup { disk[p] : p \in { q \in DOMAIN disk : disk[q] # NoFile } } :
        \A r \in db.rows :
            /\ r.title # <<>>
            /\ \A q \in db.rows : q.title = r.title => q = r

\* C6: initialize_tables succeeds on a fresh database and leaves it with the
\* table, empty; on a database that has the table it succeeds and leaves
\* the table, its rows and the next id as they were.
C6_InitializeIdempotent ==
    last.op = "initialize_tables"
    => /\ last.res = "Ok"
       /\ conn.tbl
       /\ conn.rows = last.pre.rows
       /\ conn.seq = last.pre.seq
       /\ last.pre.tbl => conn = last.pre

\* initialize_tables has just been called on a table that holds rows.
C6_Witness ==
    /\ last.op = "initialize_tables"
    /\ last.pre.tbl
    /\ last.pre.rows # {}

\* C7: no step removes or changes a row of the table, and from_id and
\* get_all_todos leave the whole database as it was.
C7_RowsArePermanent ==
    [][ /\ \A r \in conn.rows : r \in conn'.rows
        /\ last'.op \in {"from_id", "get_all_todos"} => conn' = conn ]_vars

\* The table holds two rows after a call that is not a successful save.
C7_Witness ==
    /\ Cardinality(conn.rows) >= 2
    /\ last.op \in {"from_id", "get_all_todos", "initialize_tables"}

\* C9: the first successful save on a table returns id 1 whatever id the
\* record held, and every successful save returns an id greater than every
\* id returned before it, so that no two returned records share an id.
C9_IdsAssignedIncreasing ==
    /\ returned # <<>> => returned[1].id = 1
    /\ \A i, j \in DOMAIN returned : i < j => returned[i].id < returned[j].id
    /\ (last.op = "save" /\ last.res = "Ok")
       => \A r \in last.pre.rows : r.id < last.ret.id

\* The third successful save has just returned id 3, after ids 1 and 2.
C9_Witness ==
    /\ last.op = "save"
    /\ last.res = "Ok"
    /\ Len(returned) = 3
    /\ last.ret.id = 3
    /\ RowIds(last.pre) = {1, 2}

(***************************************************************************)
(* The command dispatcher (SpecCli).                                       *)
(***************************************************************************)
\* The rows of the database the client of the last invocation was opened on.
FoundRows ==
    IF cli.store = "file" /\ cli.pre[cli.location] # NoFile
    THEN cli.pre[cli.location].rows
    ELSE {}

C10_FallbackIsInMemory ==
    (cli.cmd # "none" /\ cli.dirs = "None")
    => /\ cli.store = "memory"
       /\ disk = cli.pre

=============================================================================
